---- MODULE Spec2Model ----
(***************************************************************************)
(* A model of the valorant-backend service: the statistics aggregation of  *)
(* RiotAPIService.calculatePlayerStats, the cache-fronted upstream client  *)
(* (makeRequest and the getters built on it), the profile assembler        *)
(* getPlayerProfile and the express routes that call them.                 *)
(*                                                                         *)
(* JavaScript values are represented as follows.                           *)
(*   - a number n is Num(n); the string produced by x.toFixed(d) is        *)
(*     Str(d, s) where s is the decimal value scaled by 10^d, so that the  *)
(*     number 0 and the strings "0.0" and "0.00" are three different       *)
(*     values, as they are in the program;                                 *)
(*   - an object with string keys is a function on its set of keys;        *)
(*   - an array is a sequence.                                             *)
(***************************************************************************)
EXTENDS Integers, Sequences, FiniteSets, TLC

VARIABLES
    matches,    \* calculatePlayerStats: the match sequence it is given
    puuid,      \* calculatePlayerStats: the subject it is given
    stats,      \* calculatePlayerStats: the snapshot it returned
    pc,         \* calculatePlayerStats: "input", "loop" (in forEach), "done"
    idx,        \* calculatePlayerStats: index of the next match of the forEach
    cache,      \* the module-level NodeCache: key -> [v: body, t: expiry]
    now,        \* the clock, in seconds
    db,         \* the document store: the User and Statistics collections
    resp,       \* what the last route handler or service call produced
    nReq        \* number of requests served so far

vars == <<matches, puuid, stats, pc, idx, cache, now, db, resp, nReq>>

statsVars == <<matches, puuid, stats, pc, idx>>
serviceVars == <<cache, now, db, resp, nReq>>

(***************************************************************************)
(* Bounds of the model.                                                    *)
(***************************************************************************)
MaxMatches == 2

\* the number of requests the routes serve in one run
MaxReq == 1

\* the number of calls of the upstream client's methods in one run
MaxCalls == 3

\* the clock advances TickStep seconds at a time, MaxTicks times
MaxTicks == 2

TickStep == 200

\* the number of matches in the subject's upstream match list
HistoryLen == 2

(***************************************************************************)
(* JavaScript numbers and the strings made by Number.prototype.toFixed.    *)
(***************************************************************************)
Num(n) == [str |-> FALSE, digits |-> 0, scaled |-> n]

Str(d, s) == [str |-> TRUE, digits |-> d, scaled |-> s]

Pow10(d) == IF d = 0 THEN 1 ELSE IF d = 1 THEN 10 ELSE 100

\* (a / b) rounded to the nearest integer, halves up; b > 0, a >= 0
RoundDiv(a, b) == (2 * a + b) \div (2 * b)

\* (f * a / b).toFixed(d)
ToFixed(f, a, b, d) == Str(d, RoundDiv(f * a * Pow10(d), b))

\* Math.round(a / b)
MathRound(a, b) == Num(RoundDiv(a, b))

\* String.prototype.toLowerCase on the team names the upstream uses
ToLowerCase(s) ==
    CASE s = "Red" -> "red"
      [] s = "Blue" -> "blue"
      [] OTHER -> s

EmptyObject == [k \in {} |-> 0]

\* F(x), with x evaluated once (const v = x; return F(v))
Bind(x, F(_)) == CHOOSE r \in {F(v) : v \in {x}} : TRUE

\* obj[key] = value
Put(obj, key, value) ==
    [k \in DOMAIN obj \cup {key} |-> IF k = key THEN value ELSE obj[k]]

(***************************************************************************)
(* calculatePlayerStats                                                    *)
(***************************************************************************)
\* the stats object literal the function starts from
InitialStats(ms) ==
    [ totalMatches |-> Len(ms),
      wins |-> 0, losses |-> 0, draws |-> 0,
      totalKills |-> 0, totalDeaths |-> 0, totalAssists |-> 0,
      totalScore |-> 0, totalRounds |-> 0, roundsWon |-> 0, roundsLost |-> 0,
      headshotPercentage |-> Num(0),
      totalHeadshots |-> 0, totalBodyshots |-> 0, totalLegshots |-> 0,
      agents |-> EmptyObject, weapons |-> EmptyObject, maps |-> EmptyObject,
      recentMatches |-> <<>> ]

\* match.players.all_players.find(p => p.puuid === puuid): the index of the
\* first such player, 0 when there is none (find returns undefined)
FindPlayer(match, id) ==
    LET ps == match.players.all_players
        hits == {i \in 1..Len(ps) : ps[i].puuid = id}
    IN  IF hits = {} THEN 0 ELSE CHOOSE i \in hits : \A j \in hits : i <= j

\* teams[playerTeam] is an object (truthy) or undefined
HasTeam(match, player) == ToLowerCase(player.team) \in DOMAIN match.teams

TeamOf(match, player) == match.teams[ToLowerCase(player.team)]

\* teams.red?.rounds_won === teams.blue?.rounds_won
RoundsEqual(teams) ==
    LET r == "red" \in DOMAIN teams
        b == "blue" \in DOMAIN teams
    IN  IF r /\ b THEN teams["red"].rounds_won = teams["blue"].rounds_won
        ELSE (~r /\ ~b)

\* the classification with the round comparison tested first
OutcomeDrawFirst(match, player) ==
    IF RoundsEqual(match.teams) THEN "draw"
    ELSE IF TeamOf(match, player).has_won THEN "win"
    ELSE "loss"

\* the if / else if / else that classifies the match: "win", "draw", "loss"
Outcome(match, player) ==
    IF TeamOf(match, player).has_won THEN "win"
    ELSE IF RoundsEqual(match.teams) THEN "draw"
    ELSE "loss"

\* a win read off the round counts instead of the has_won flag
TeamWonByRounds(match, player) ==
    IF HasTeam(match, player)
    THEN TeamOf(match, player).rounds_won > TeamOf(match, player).rounds_lost
    ELSE FALSE

\* team?.has_won || false
TeamWon(match, player) ==
    IF HasTeam(match, player) THEN TeamOf(match, player).has_won ELSE FALSE

NewAgentEntry ==
    [matches |-> 0, wins |-> 0, kills |-> 0, deaths |-> 0, assists |-> 0,
     kd |-> Num(0), winRate |-> Num(0)]

NewMapEntry ==
    [matches |-> 0, wins |-> 0, kills |-> 0, deaths |-> 0,
     roundsWon |-> 0, roundsLost |-> 0]

\* one iteration of matches.forEach
FoldMatch(s, match, id) ==
    LET i == FindPlayer(match, id) IN
    IF i = 0 THEN s
    ELSE
    LET player == match.players.all_players[i]
        hasTeam == HasTeam(match, player)
        rw == IF hasTeam THEN TeamOf(match, player).rounds_won ELSE 0
        rl == IF hasTeam THEN TeamOf(match, player).rounds_lost ELSE 0
        oc == IF hasTeam THEN Outcome(match, player) ELSE "none"
        won == TeamWon(match, player)
        dmg == "damage_made" \in DOMAIN player
        agentName == player.character
        a0 == IF agentName \in DOMAIN s.agents
              THEN s.agents[agentName] ELSE NewAgentEntry
        a1 == [a0 EXCEPT !.matches = @ + 1,
                         !.kills = @ + player.stats.kills,
                         !.deaths = @ + player.stats.deaths,
                         !.assists = @ + player.stats.assists,
                         !.wins = IF won THEN @ + 1 ELSE @]
        mapName == match.metadata.map
        m0 == IF mapName \in DOMAIN s.maps
              THEN s.maps[mapName] ELSE NewMapEntry
        m1 == [m0 EXCEPT !.matches = @ + 1,
                         !.kills = @ + player.stats.kills,
                         !.deaths = @ + player.stats.deaths,
                         !.roundsWon = @ + rw,
                         !.roundsLost = @ + rl,
                         !.wins = IF won THEN @ + 1 ELSE @]
        summary == [matchId |-> match.metadata.matchid,
                    map |-> mapName,
                    mode |-> match.metadata.mode,
                    date |-> match.metadata.game_start * 1000,
                    kills |-> player.stats.kills,
                    deaths |-> player.stats.deaths,
                    assists |-> player.stats.assists,
                    score |-> player.stats.score,
                    agent |-> agentName,
                    won |-> won,
                    roundsWon |-> rw,
                    roundsLost |-> rl]
    IN  [s EXCEPT
            !.totalKills = @ + player.stats.kills,
            !.totalDeaths = @ + player.stats.deaths,
            !.totalAssists = @ + player.stats.assists,
            !.totalScore = @ + player.stats.score,
            !.roundsWon = @ + rw,
            !.roundsLost = @ + rl,
            !.totalRounds = @ + rw + rl,
            !.wins = IF oc = "win" THEN @ + 1 ELSE @,
            !.draws = IF oc = "draw" THEN @ + 1 ELSE @,
            !.losses = IF oc = "loss" THEN @ + 1 ELSE @,
            !.totalHeadshots = IF dmg THEN @ + player.damage_made.headshots ELSE @,
            !.totalBodyshots = IF dmg THEN @ + player.damage_made.bodyshots ELSE @,
            !.totalLegshots = IF dmg THEN @ + player.damage_made.legshots ELSE @,
            !.agents = Put(@, agentName, a1),
            !.maps = Put(@, mapName, m1),
            !.recentMatches = Append(@, summary)]

RECURSIVE FoldMatches(_, _, _, _)
FoldMatches(s, ms, k, id) ==
    IF k > Len(ms) THEN s
    ELSE Bind(FoldMatch(s, ms[k], id), LAMBDA t : FoldMatches(t, ms, k + 1, id))

\* kd formatted with toFixed(2) in both branches
KdAlwaysFixed(kills, deaths) ==
    IF deaths > 0 THEN ToFixed(1, kills, deaths, 2) ELSE Str(2, kills * 100)

\* deaths > 0 ? (kills / deaths).toFixed(2) : kills
Kd(kills, deaths) ==
    IF deaths > 0 THEN ToFixed(1, kills, deaths, 2) ELSE Num(kills)

\* n > 0 ? ((part / n) * 100).toFixed(1) : 0
Percentage(part, n) ==
    IF n > 0 THEN ToFixed(100, part, n, 1) ELSE Num(0)

\* stats.totalMatches > 0 ? (total / stats.totalMatches).toFixed(1) : 0
Average(total, n) ==
    IF n > 0 THEN ToFixed(1, total, n, 1) ELSE Num(0)

\* stats.totalMatches > 0 ? Math.round(stats.totalScore / stats.totalMatches) : 0
AverageScore(total, n) ==
    IF n > 0 THEN MathRound(total, n) ELSE Num(0)

DerivedAgent(a) ==
    [a EXCEPT !.kd = Kd(a.kills, a.deaths),
              !.winRate = Percentage(a.wins, a.matches)]

DerivedMap(m) ==
    [winRate |-> Percentage(m.wins, m.matches),
     kd |-> Kd(m.kills, m.deaths),
     roundWinRate |-> Percentage(m.roundsWon, m.roundsWon + m.roundsLost)] @@ m

\* "Calculate derived stats" and the two Object.keys(...).forEach loops
Derived(s) ==
    [kd |-> Kd(s.totalKills, s.totalDeaths),
     winRate |-> Percentage(s.wins, s.totalMatches),
     headshotPercentage |->
         Percentage(s.totalHeadshots,
                    s.totalHeadshots + s.totalBodyshots + s.totalLegshots),
     averageKills |-> Average(s.totalKills, s.totalMatches),
     averageDeaths |-> Average(s.totalDeaths, s.totalMatches),
     averageAssists |-> Average(s.totalAssists, s.totalMatches),
     averageScore |-> AverageScore(s.totalScore, s.totalMatches),
     agents |-> [a \in DOMAIN s.agents |-> DerivedAgent(s.agents[a])],
     maps |-> [m \in DOMAIN s.maps |-> DerivedMap(s.maps[m])]] @@ s

calculatePlayerStats(ms, id) ==
    Bind(ms, LAMBDA m :
        Bind(FoldMatches(InitialStats(m), m, 1, id), LAMBDA s : Derived(s)))

(***************************************************************************)
(* The match records calculatePlayerStats is run on.  The subject is p1;   *)
(* p2 plays in every match.  A match varies in: whether the subject is     *)
(* among the players, the subject's team, whether match.teams has both     *)
(* teams or only red, the two has_won flags, whether the rounds_won counts *)
(* are equal, and the agent / map / score line of the subject.             *)
(***************************************************************************)
Subject == "p1"

Other == "p2"

Team(won, rw, rl) == [has_won |-> won, rounds_won |-> rw, rounds_lost |-> rl]

SubjectPlayer(team, line) ==
    IF line = "a"
    THEN [puuid |-> Subject, team |-> team, character |-> "Jett",
          stats |-> [kills |-> 20, deaths |-> 10, assists |-> 4, score |-> 5001],
          damage_made |-> [headshots |-> 50, bodyshots |-> 40, legshots |-> 10]]
    ELSE [puuid |-> Subject, team |-> team, character |-> "Sage",
          stats |-> [kills |-> 7, deaths |-> 0, assists |-> 9, score |-> 2000]]

OtherPlayer ==
    [puuid |-> Other, team |-> "Blue", character |-> "Omen",
     stats |-> [kills |-> 11, deaths |-> 12, assists |-> 3, score |-> 3000],
     damage_made |-> [headshots |-> 5, bodyshots |-> 30, legshots |-> 2]]

MakeMatch(present, team, both, redWon, blueWon, redRounds, line) ==
    [ metadata |-> [matchid |-> "m", map |-> IF line = "a" THEN "Ascent" ELSE "Bind",
                    mode |-> "Competitive", game_start |-> 1700000],
      players |-> [all_players |->
          <<OtherPlayer>> \o
          (IF present THEN <<SubjectPlayer(team, line)>> ELSE <<>>)],
      teams |->
          IF both
          THEN [red |-> Team(redWon, redRounds, 12),
                blue |-> Team(blueWon, 12, redRounds)]
          ELSE [red |-> Team(redWon, redRounds, 12)] ]

MatchShapes ==
    { MakeMatch(FALSE, "Red", TRUE, TRUE, FALSE, 13, "a") }
    \cup
    { MakeMatch(TRUE, team, TRUE, redWon, blueWon, redRounds, line) :
        team \in {"Red", "Blue"}, redWon \in BOOLEAN, blueWon \in BOOLEAN,
        redRounds \in {12, 13}, line \in {"a", "b"} }
    \cup
    { MakeMatch(TRUE, team, FALSE, redWon, FALSE, redRounds, line) :
        team \in {"Red", "Blue"}, redWon \in BOOLEAN,
        redRounds \in {12, 13}, line \in {"a", "b"} }

RECURSIVE SeqsUpTo(_, _)
SeqsUpTo(S, n) ==
    IF n = 0 THEN {<<>>}
    ELSE LET shorter == SeqsUpTo(S, n - 1)
         IN  shorter \cup {Append(q, x) : q \in shorter, x \in S}

NoStats == [none |-> TRUE]

(***************************************************************************)
(* calculatePlayerStats as a process: the object literal, one step per     *)
(* iteration of matches.forEach, then the derived statistics.              *)
(***************************************************************************)
StatsInit ==
    /\ matches \in SeqsUpTo(MatchShapes, MaxMatches)
    /\ puuid = Subject
    /\ stats = NoStats
    /\ pc = "input"
    /\ idx = 0

StatsBegin ==
    /\ pc = "input"
    /\ stats' = InitialStats(matches)
    /\ idx' = 1
    /\ pc' = "loop"
    /\ UNCHANGED <<matches, puuid>>

StatsForEach ==
    /\ pc = "loop"
    /\ idx <= Len(matches)
    /\ stats' = FoldMatch(stats, matches[idx], puuid)
    /\ idx' = idx + 1
    /\ UNCHANGED <<matches, puuid, pc>>

StatsReturn ==
    /\ pc = "loop"
    /\ idx > Len(matches)
    /\ stats' = Derived(stats)
    /\ pc' = "done"
    /\ UNCHANGED <<matches, puuid, idx>>

(***************************************************************************)
(* The upstream provider.  A response body is [src, empty, data]: src is   *)
(* the URL the body was fetched from, empty says that the body is the      *)
(* empty string (a response without content, falsy in JavaScript) and      *)
(* data is the parsed JSON object otherwise.                               *)
(***************************************************************************)
Regions == {"europe", "asia"}

\* this.regions[region]
RegionUrl(region) ==
    IF region = "europe" THEN "https://europe.api.riotgames.com"
    ELSE "https://asia.api.riotgames.com"

NoData == [none |-> TRUE]

Undefined == [src |-> "", empty |-> TRUE, data |-> NoData, undefined |-> TRUE]

Body(url, data) == [src |-> url, empty |-> FALSE, data |-> data, undefined |-> FALSE]

EmptyBody(url) == [src |-> url, empty |-> TRUE, data |-> NoData, undefined |-> FALSE]

\* JavaScript truthiness of a cached or fetched body
Truthy(v) == ~v.empty

AccountUrl(gameName, tagLine, region) ==
    RegionUrl(region) \o "/riot/account/v1/accounts/by-riot-id/"
        \o gameName \o "/" \o tagLine

MatchlistUrl(id, region) ==
    RegionUrl(region) \o "/val/match/v1/matchlists/by-puuid/" \o id

MatchUrl(matchId, region) ==
    RegionUrl(region) \o "/val/match/v1/matches/" \o matchId

CompetitiveUrl(id, region, queue, start, end) ==
    MatchlistUrl(id, region) \o "?queue=" \o queue
        \o "&start=" \o ToString(start) \o "&end=" \o ToString(end)

GameName == "g1"

TagLine == "t1"

MatchId(i) == "m" \o ToString(i)

\* the match the upstream holds under MatchId(i): a win of the subject on
\* red, a loss on blue, a match the subject is not among the players of
UpstreamMatch(i) ==
    LET m == CASE i % 3 = 1 -> MakeMatch(TRUE, "Red", TRUE, TRUE, FALSE, 13, "a")
               [] i % 3 = 2 -> MakeMatch(TRUE, "Blue", TRUE, TRUE, FALSE, 13, "b")
               [] OTHER -> MakeMatch(FALSE, "Red", TRUE, TRUE, FALSE, 13, "a")
    IN  [m EXCEPT !.metadata.matchid = MatchId(i)]

\* the subject's match list: HistoryLen matches in europe, none in asia
UpstreamHistory(region) ==
    IF region = "europe"
    THEN [history |-> [i \in 1..HistoryLen |-> [matchId |-> MatchId(i)]]]
    ELSE [history |-> <<>>]

Queues == {"competitive", "unrated"}

\* what the upstream holds: the account of g1#t1 (in every region), the
\* subject's match lists, and the matches of the europe list
Upstream ==
    { Body(AccountUrl(GameName, TagLine, r),
           [puuid |-> Subject, gameName |-> GameName, tagLine |-> TagLine]) :
        r \in Regions }
    \cup { Body(MatchlistUrl(Subject, r), UpstreamHistory(r)) : r \in Regions }
    \cup { Body(CompetitiveUrl(Subject, r, q, 0, 20), UpstreamHistory(r)) :
            r \in Regions, q \in Queues }
    \cup { Body(MatchUrl(MatchId(i), "europe"), UpstreamMatch(i)) :
            i \in 1..HistoryLen }

Exists(url) == \E b \in Upstream : b.src = url

Resource(url) == CHOOSE b \in Upstream : b.src = url

\* the outcomes axios.get(url) can have: it resolves with the resource
\* ("200") or with an empty body ("204": response.data is ""), or it throws
\* ("error": a transport error or a status outside 2xx)
Outcomes(url) == IF Exists(url) THEN {"200", "204", "error"} ELSE {"error"}

(***************************************************************************)
(* The cache: new NodeCache({ stdTTL: 300 }).  set stores the value with   *)
(* the expiry now + stdTTL; get returns undefined for a missing key and    *)
(* for an entry whose expiry is before now.                                *)
(***************************************************************************)
stdTTL == 300

NoKey == ""

Fresh(c, key, t) == key \in DOMAIN c /\ ~(c[key].t < t)

CacheGet(c, key, t) == IF Fresh(c, key, t) THEN c[key].v ELSE Undefined

CacheSet(c, key, value, t) == Put(c, key, [v |-> value, t |-> t + stdTTL])

\* the periodic check of the cache: expired entries are deleted
CheckData(c, t) == [k \in {x \in DOMAIN c : ~(c[x].t < t)} |-> c[k]]

(***************************************************************************)
(* makeRequest(url, cacheKey).  out is the outcome axios.get has if it is  *)
(* called.  The result is the cache afterwards, whether the call resolved  *)
(* (ok) or threw, the value it resolved with, and a record of the call:    *)
(* its url and key, whether an unexpired entry was stored under the key    *)
(* (fresh), whether that entry was fetched from this very url (prior: an   *)
(* earlier call of the same operation with the same parameters resolved    *)
(* and its response has not expired), whether a network call was made      *)
(* (net), the value, and whether the value is the stored one (stored).     *)
(***************************************************************************)
CacheHit(cacheKey, cached) == cacheKey # NoKey /\ Truthy(cached)

Call(c, url, cacheKey, net, ok, value) ==
    [url |-> url, key |-> cacheKey,
     fresh |-> Fresh(c, cacheKey, now),
     prior |-> Fresh(c, cacheKey, now) /\ c[cacheKey].v.src = url,
     net |-> net, ok |-> ok, value |-> value,
     stored |-> ok /\ value = CacheGet(c, cacheKey, now)]

makeRequest(c, url, cacheKey, out) ==
    LET cached == CacheGet(c, cacheKey, now)
    IN  IF CacheHit(cacheKey, cached)
        THEN [cache |-> c, ok |-> TRUE, value |-> cached,
              log |-> <<Call(c, url, cacheKey, FALSE, TRUE, cached)>>]
        ELSE IF out = "error"
        THEN [cache |-> c, ok |-> FALSE, value |-> Undefined,
              log |-> <<Call(c, url, cacheKey, TRUE, FALSE, Undefined)>>]
        ELSE LET data == IF out = "200" THEN Resource(url) ELSE EmptyBody(url)
             IN  [cache |-> IF cacheKey # NoKey
                            THEN CacheSet(c, cacheKey, data, now) ELSE c,
                  ok |-> TRUE, value |-> data,
                  log |-> <<Call(c, url, cacheKey, TRUE, TRUE, data)>>]

getAccountByRiotId(c, gameName, tagLine, region, out) ==
    makeRequest(c, AccountUrl(gameName, tagLine, region),
                "account:" \o gameName \o ":" \o tagLine, out)

getMatchHistory(c, id, region, count, out) ==
    makeRequest(c, MatchlistUrl(id, region),
                "matches:" \o id \o ":" \o ToString(count), out)

getMatchDetails(c, matchId, region, out) ==
    makeRequest(c, MatchUrl(matchId, region), "match:" \o matchId, out)

getCompetitiveUpdates(c, id, region, queue, start, end, out) ==
    makeRequest(c, CompetitiveUrl(id, region, queue, start, end),
                "competitive:" \o id \o ":" \o ToString(start)
                    \o ":" \o ToString(end), out)

(***************************************************************************)
(* getRecentMatchesWithDetails and getPlayerProfile.  outs gives, for each *)
(* URL, the outcome axios.get has if it is called for it.  The detail      *)
(* fetches of one Promise.all are all started before any of them settles;  *)
(* their keys are distinct, so threading the cache through them in order   *)
(* gives the cache they leave.  A fetch that fails does not stop the       *)
(* others: each one that resolves still stores its response.               *)
(***************************************************************************)
RECURSIVE FetchDetails(_, _, _, _, _)
FetchDetails(c, ids, k, region, outs) ==
    IF k > Len(ids) THEN [cache |-> c, results |-> <<>>, log |-> <<>>]
    ELSE Bind(getMatchDetails(c, ids[k], region, outs[MatchUrl(ids[k], region)]),
              LAMBDA r :
            Bind(FetchDetails(r.cache, ids, k + 1, region, outs), LAMBDA rest :
                [cache |-> rest.cache,
                 results |-> <<[ok |-> r.ok, value |-> r.value]>> \o rest.results,
                 log |-> r.log \o rest.log]))

\* matchHistory.history.map(match => match.matchId)
MatchIdsOf(history) == [i \in 1..Len(history) |-> history[i].matchId]

Thrown(c, log) == [cache |-> c, ok |-> FALSE, value |-> NoData, log |-> log]

Returned(c, value, log) == [cache |-> c, ok |-> TRUE, value |-> value, log |-> log]

\* Promise.all(promises): rejects if one of them rejects
PromiseAll(results) ==
    IF \A i \in 1..Len(results) : results[i].ok
    THEN [ok |-> TRUE, value |-> [i \in 1..Len(results) |-> results[i].value]]
    ELSE [ok |-> FALSE, value |-> <<>>]

getRecentMatchesWithDetails(c, id, region, count, outs) ==
    Bind(getMatchHistory(c, id, region, count, outs[MatchlistUrl(id, region)]),
         LAMBDA h :
        IF ~h.ok THEN Thrown(h.cache, h.log)
        \* "".history is undefined and undefined.map throws a TypeError
        ELSE IF h.value.empty THEN Thrown(h.cache, h.log)
        ELSE Bind(FetchDetails(h.cache, MatchIdsOf(h.value.data.history),
                               1, region, outs), LAMBDA d :
                Bind(PromiseAll(d.results), LAMBDA all :
                    IF all.ok THEN Returned(d.cache, all.value, h.log \o d.log)
                    ELSE Thrown(d.cache, h.log \o d.log))))

\* calculatePlayerStats on fetched bodies: match.players.all_players throws
\* a TypeError on a body that is the empty string
StatsThrows(bodies) == \E i \in 1..Len(bodies) : bodies[i].empty

MatchesOf(bodies) == [i \in 1..Len(bodies) |-> bodies[i].data]

\* the statistics literal of getPlayerProfile for an empty match list
ZeroStats ==
    [ totalMatches |-> 0, wins |-> 0, losses |-> 0, draws |-> 0,
      totalKills |-> 0, totalDeaths |-> 0, totalAssists |-> 0,
      kd |-> Num(0), winRate |-> Num(0), headshotPercentage |-> Num(0),
      agents |-> EmptyObject, maps |-> EmptyObject, recentMatches |-> <<>> ]

\* history.slice(0, 5)
Slice5(history) == SubSeq(history, 1, IF Len(history) < 5 THEN Len(history) ELSE 5)

\* the results up to the first failed fetch: a failure that cancels the
\* fetches after it
NonNullUntilFailure(results) ==
    LET F[k \in 0..Len(results)] ==
            IF k = 0 THEN <<>>
            ELSE IF results[k].ok /\ Len(F[k - 1]) = k - 1
                 THEN Append(F[k - 1], results[k].value)
            ELSE F[k - 1]
    IN  F[Len(results)]

\* promise.catch(e => null) on every fetch, then filter(m => m !== null)
NonNull(results) ==
    LET F[k \in 0..Len(results)] ==
            IF k = 0 THEN <<>>
            ELSE IF results[k].ok THEN Append(F[k - 1], results[k].value)
            ELSE F[k - 1]
    IN  F[Len(results)]

\* account.puuid, account.gameName, account.tagLine; undefined on ""
AccountField(account, field) ==
    IF account.empty THEN "undefined" ELSE account.data[field]

Null == [null |-> TRUE]

\* the inner try block of getPlayerProfile: the matches it leaves
ProfileMatches(c, id, region, outs) ==
    Bind(getMatchHistory(c, id, region, 5, outs[MatchlistUrl(id, region)]),
         LAMBDA h :
        IF ~h.ok THEN [cache |-> h.cache, matches |-> <<>>, log |-> h.log]
        ELSE IF Truthy(h.value) /\ Len(h.value.data.history) > 0
        THEN Bind(FetchDetails(h.cache, MatchIdsOf(Slice5(h.value.data.history)),
                               1, region, outs), LAMBDA d :
                [cache |-> d.cache, matches |-> NonNull(d.results),
                 log |-> h.log \o d.log])
        ELSE [cache |-> h.cache, matches |-> <<>>, log |-> h.log])

\* the profile object getPlayerProfile returns
Profile(account, id, statistics) ==
    [ account |-> [puuid |-> id,
                   gameName |-> AccountField(account, "gameName"),
                   tagLine |-> AccountField(account, "tagLine")],
      rank |-> Null,
      statistics |-> statistics,
      lastUpdated |-> now ]

\* getPlayerProfile without the inner try / catch around the match history
getPlayerProfileNoInnerCatch(c, gameName, tagLine, region, outs) ==
    Bind(getAccountByRiotId(c, gameName, tagLine, region,
                            outs[AccountUrl(gameName, tagLine, region)]),
         LAMBDA a :
        IF ~a.ok THEN Thrown(a.cache, a.log)
        ELSE Bind(ProfileMatches(a.cache, AccountField(a.value, "puuid"),
                                 region, outs), LAMBDA m :
                IF ~m.log[1].ok \/ (Len(m.matches) > 0 /\ StatsThrows(m.matches))
                THEN Thrown(m.cache, a.log \o m.log)
                ELSE Returned(m.cache,
                        Profile(a.value, AccountField(a.value, "puuid"),
                            IF Len(m.matches) > 0
                            THEN calculatePlayerStats(MatchesOf(m.matches),
                                     AccountField(a.value, "puuid"))
                            ELSE ZeroStats),
                        a.log \o m.log)))

getPlayerProfile(c, gameName, tagLine, region, outs) ==
    Bind(getAccountByRiotId(c, gameName, tagLine, region,
                            outs[AccountUrl(gameName, tagLine, region)]),
         LAMBDA a :
        IF ~a.ok THEN Thrown(a.cache, a.log)
        ELSE Bind(ProfileMatches(a.cache, AccountField(a.value, "puuid"),
                                 region, outs), LAMBDA m :
                IF Len(m.matches) > 0 /\ StatsThrows(m.matches)
                THEN Thrown(m.cache, a.log \o m.log)
                ELSE Returned(m.cache,
                        Profile(a.value, AccountField(a.value, "puuid"),
                            IF Len(m.matches) > 0
                            THEN calculatePlayerStats(MatchesOf(m.matches),
                                     AccountField(a.value, "puuid"))
                            ELSE ZeroStats),
                        a.log \o m.log)))

(***************************************************************************)
(* The routes.  Each handler is one action: its upstream calls, the        *)
(* computation, the write to the document store (which may fail: dbOk)     *)
(* and the response.  A response is success (res.json with success: true   *)
(* and the data) or an error (the catch block: success: false).            *)
(***************************************************************************)
Counts == {1, 20}

\* the URLs a handler may request for the subject in a region
Urls(region) ==
    {AccountUrl(GameName, TagLine, region)}
    \cup {MatchlistUrl(id, region) : id \in {Subject, "undefined"}}
    \cup {MatchUrl(MatchId(i), region) : i \in 1..HistoryLen}

OutcomeMaps(region) ==
    {f \in [Urls(region) -> {"200", "204", "error"}] :
        \A u \in Urls(region) : f[u] \in Outcomes(u)}

\* the URLs getRecentMatchesWithDetails may request (no account lookup)
MatchesUrls(region) ==
    {MatchlistUrl(Subject, region)}
    \cup {MatchUrl(MatchId(i), region) : i \in 1..HistoryLen}

MatchesOutcomeMaps(region) ==
    {f \in [MatchesUrls(region) -> {"200", "204", "error"}] :
        \A u \in MatchesUrls(region) : f[u] \in Outcomes(u)}

NoResp ==
    [op |-> "none", region |-> "", count |-> 0, success |-> FALSE,
     computed |-> FALSE, result |-> NoData, dbOk |-> TRUE, data |-> NoData,
     log |-> <<>>]

\* res.json({ success: true, data }) or the error response of the catch
\* block (success: false).  computed says that the service call returned,
\* result is what it returned, dbOk that the write to the document store
\* did not throw, log lists the calls of makeRequest
Response(op, region, count, r, dbOk) ==
    [op |-> op, region |-> region, count |-> count,
     success |-> r.ok /\ dbOk,
     computed |-> r.ok, result |-> r.value, dbOk |-> dbOk,
     data |-> IF r.ok /\ dbOk THEN r.value ELSE NoData,
     log |-> r.log]

\* the array getRecentMatchesWithDetails returned, held as the matches of
\* the handler (a record, as every other result of a handler is)
MatchList(r) ==
    IF r.ok THEN [r EXCEPT !.value = [matches |-> r.value]] ELSE r

\* the write to the document store succeeds or throws; it is reached only
\* when the handler has computed its result
DbOutcomes(r) == IF r.ok THEN BOOLEAN ELSE {TRUE}

ServiceInit ==
    /\ cache = EmptyObject
    /\ now = 0
    /\ db = [users |-> EmptyObject, statistics |-> EmptyObject]
    /\ resp = NoResp
    /\ nReq = 0

\* router.get('/player/:gameName/:tagLine')
RoutePlayer ==
    /\ nReq < MaxReq
    /\ \E region \in Regions :
        \E outs \in OutcomeMaps(region) :
            \E r \in {getPlayerProfile(cache, GameName, TagLine, region, outs)} :
                \E dbOk \in DbOutcomes(r) :
                /\ cache' = r.cache
                /\ db' = IF r.ok /\ dbOk
                         THEN [db EXCEPT !.users =
                                 Put(@, r.value.account.puuid,
                                     [gameName |-> r.value.account.gameName,
                                      tagLine |-> r.value.account.tagLine,
                                      region |-> region,
                                      totalMatches |-> r.value.statistics.totalMatches])]
                         ELSE db
                /\ resp' = Response("player", region, 5, r, dbOk)
    /\ nReq' = nReq + 1
    /\ UNCHANGED now

\* router.get('/matches/:puuid')
RouteMatches ==
    /\ nReq < MaxReq
    /\ \E region \in Regions, count \in Counts :
        \E outs \in MatchesOutcomeMaps(region) :
            \E r \in {getRecentMatchesWithDetails(cache, Subject, region, count, outs)} :
                /\ cache' = r.cache
                /\ resp' = Response("matches", region, count, MatchList(r), TRUE)
    /\ nReq' = nReq + 1
    /\ UNCHANGED <<now, db>>

\* router.get('/match/:matchId')
RouteMatch ==
    /\ nReq < MaxReq
    /\ \E region \in Regions, i \in 1..HistoryLen :
        \E out \in Outcomes(MatchUrl(MatchId(i), region)) :
            \E r \in {getMatchDetails(cache, MatchId(i), region, out)} :
                /\ cache' = r.cache
                /\ resp' = Response("match", region, 0, r, TRUE)
    /\ nReq' = nReq + 1
    /\ UNCHANGED <<now, db>>

\* the first two statements of the '/stats/:puuid' handler
StatsOfRecentMatches(c, region, count, outs) ==
    Bind(getRecentMatchesWithDetails(c, Subject, region, count, outs), LAMBDA m :
        IF ~m.ok \/ StatsThrows(m.value) THEN Thrown(m.cache, m.log)
        ELSE Returned(m.cache,
                calculatePlayerStats(MatchesOf(m.value), Subject), m.log))

\* router.get('/stats/:puuid')
RouteStats ==
    /\ nReq < MaxReq
    /\ \E region \in Regions, count \in Counts :
        \E outs \in MatchesOutcomeMaps(region) :
            \E r \in {StatsOfRecentMatches(cache, region, count, outs)} :
                \E dbOk \in DbOutcomes(r) :
                /\ cache' = r.cache
                /\ db' = IF r.ok /\ dbOk
                         THEN [db EXCEPT !.statistics =
                                 Put(@, Subject,
                                     [totalMatches |-> r.value.totalMatches,
                                      wins |-> r.value.wins,
                                      losses |-> r.value.losses])]
                         ELSE db
                /\ resp' = Response("stats", region, count, r, dbOk)
    /\ nReq' = nReq + 1
    /\ UNCHANGED now

\* a call of riotAPI.getAccountByRiotId(gameName, tagLine, region)
AccountByRiotId ==
    /\ nReq < MaxCalls
    /\ \E region \in Regions :
        \E out \in Outcomes(AccountUrl(GameName, TagLine, region)) :
            \E r \in {getAccountByRiotId(cache, GameName, TagLine, region, out)} :
                /\ cache' = r.cache
                /\ resp' = Response("account", region, 0, r, TRUE)
    /\ nReq' = nReq + 1
    /\ UNCHANGED <<now, db>>

\* a call of riotAPI.getMatchHistory(puuid, region, count)
MatchHistory ==
    /\ nReq < MaxCalls
    /\ \E region \in Regions, count \in Counts :
        \E out \in Outcomes(MatchlistUrl(Subject, region)) :
            \E r \in {getMatchHistory(cache, Subject, region, count, out)} :
                /\ cache' = r.cache
                /\ resp' = Response("history", region, count, r, TRUE)
    /\ nReq' = nReq + 1
    /\ UNCHANGED <<now, db>>

\* a call of riotAPI.getMatchDetails(matchId, region)
MatchDetails ==
    /\ nReq < MaxCalls
    /\ \E region \in Regions, i \in 1..HistoryLen :
        \E out \in Outcomes(MatchUrl(MatchId(i), region)) :
            \E r \in {getMatchDetails(cache, MatchId(i), region, out)} :
                /\ cache' = r.cache
                /\ resp' = Response("details", region, 0, r, TRUE)
    /\ nReq' = nReq + 1
    /\ UNCHANGED <<now, db>>

\* a call of riotAPI.getCompetitiveUpdates(puuid, region, queue)
CompetitiveUpdates ==
    /\ nReq < MaxCalls
    /\ \E region \in Regions, queue \in Queues :
        \E out \in Outcomes(CompetitiveUrl(Subject, region, queue, 0, 20)) :
            \E r \in {getCompetitiveUpdates(cache, Subject, region, queue, 0, 20, out)} :
                /\ cache' = r.cache
                /\ resp' = Response("competitive", region, 0, r, TRUE)
    /\ nReq' = nReq + 1
    /\ UNCHANGED <<now, db>>

\* time passes; the cache's periodic check deletes what has expired
Tick ==
    /\ now + TickStep <= MaxTicks * TickStep
    /\ now' = now + TickStep
    /\ cache' = CheckData(cache, now + TickStep)
    /\ UNCHANGED <<db, resp, nReq>>

StatsIdle ==
    /\ matches = <<>>
    /\ puuid = Subject
    /\ stats = NoStats
    /\ pc = "idle"
    /\ idx = 0

Init == ServiceInit /\ StatsIdle

\* the service behind its routes
Next ==
    \/ (RoutePlayer /\ UNCHANGED statsVars)
    \/ (RouteMatches /\ UNCHANGED statsVars)
    \/ (RouteMatch /\ UNCHANGED statsVars)
    \/ (RouteStats /\ UNCHANGED statsVars)
    \/ (Tick /\ UNCHANGED statsVars)

Spec == Init /\ [][Next]_vars

\* the upstream client's cache-fronted methods, called one after another
NextCache ==
    \/ (AccountByRiotId /\ UNCHANGED statsVars)
    \/ (MatchHistory /\ UNCHANGED statsVars)
    \/ (MatchDetails /\ UNCHANGED statsVars)
    \/ (CompetitiveUpdates /\ UNCHANGED statsVars)
    \/ (Tick /\ UNCHANGED statsVars)

SpecCache == Init /\ [][NextCache]_vars

InitStats == StatsInit /\ ServiceInit

NextStats ==
    \/ (StatsBegin /\ UNCHANGED serviceVars)
    \/ (StatsForEach /\ UNCHANGED serviceVars)
    \/ (StatsReturn /\ UNCHANGED serviceVars)

SpecStats == InitStats /\ [][NextStats]_vars

(***************************************************************************)
(* Properties of calculatePlayerStats (SpecStats).                         *)
(***************************************************************************)
\* the match the forEach is about to fold
Folding == pc = "loop" /\ idx <= Len(matches)

Located(m) == \E i \in 1..Len(m.players.all_players) :
                m.players.all_players[i].puuid = puuid

SubjectTeamKey(m) == ToLowerCase(m.players.all_players[FindPlayer(m, puuid)].team)

\* the subject is among the players and match.teams has the subject's team
SubjectHasTeam(m) == Located(m) /\ SubjectTeamKey(m) \in DOMAIN m.teams

SubjectTeamWon(m) == SubjectHasTeam(m) /\ m.teams[SubjectTeamKey(m)].has_won

SubjectTeamNotWon(m) == SubjectHasTeam(m) /\ ~m.teams[SubjectTeamKey(m)].has_won

NeitherTeamWon(m) == \A t \in DOMAIN m.teams : ~m.teams[t].has_won

BothRoundsEqual(m) ==
    /\ {"red", "blue"} \subseteq DOMAIN m.teams
    /\ m.teams["red"].rounds_won = m.teams["blue"].rounds_won

\* C1: for every match sequence, the snapshot calculatePlayerStats returns
\* has wins + losses + draws = totalMatches, also when a match does not have
\* the subject among its players or has no entry for the subject's team.
C1_OutcomesSumToTotalMatches ==
    pc = "done" => stats.wins + stats.losses + stats.draws = stats.totalMatches

\* C6: folding a match in which the subject's team has has_won = true
\* increments wins and leaves draws and losses unchanged, whatever the
\* rounds_won counts are (equal ones included).
C6_WonFlagTakesPrecedence ==
    [][ (Folding /\ SubjectTeamWon(matches[idx]))
        => /\ stats'.wins = stats.wins + 1
           /\ stats'.draws = stats.draws
           /\ stats'.losses = stats.losses ]_vars

\* a one-match run is done: the subject's team was flagged as won, both
\* teams won the same number of rounds, and the match was counted as a win
C6_Witness ==
    /\ pc = "done"
    /\ Len(matches) = 1
    /\ SubjectTeamWon(matches[1])
    /\ BothRoundsEqual(matches[1])
    /\ stats.wins = 1
    /\ stats.draws = 0

\* C7: folding a match whose subject team is not flagged as won counts a
\* draw only if neither team is flagged as won and both teams' rounds_won
\* counts are equal; in every other such case it counts a loss.
C7_DrawOnlyIfNeitherTeamWon ==
    [][ (Folding /\ SubjectTeamNotWon(matches[idx]))
        => IF NeitherTeamWon(matches[idx]) /\ BothRoundsEqual(matches[idx])
           THEN /\ stats'.draws = stats.draws + 1
                /\ stats'.losses = stats.losses
                /\ stats'.wins = stats.wins
           ELSE /\ stats'.losses = stats.losses + 1
                /\ stats'.draws = stats.draws
                /\ stats'.wins = stats.wins ]_vars

\* C10: on the empty match sequence calculatePlayerStats returns the
\* snapshot with totalMatches 0, no wins, losses or draws, all totals 0,
\* kd, winRate, headshotPercentage and the per-match averages the number 0,
\* no agent or map entries and no recent matches.
C10_EmptySequenceGivesZeroSnapshot ==
    (pc = "done" /\ matches = <<>>)
    => /\ stats.totalMatches = 0
       /\ stats.wins = 0 /\ stats.losses = 0 /\ stats.draws = 0
       /\ stats.totalKills = 0 /\ stats.totalDeaths = 0
       /\ stats.totalAssists = 0 /\ stats.totalScore = 0
       /\ stats.totalRounds = 0 /\ stats.roundsWon = 0 /\ stats.roundsLost = 0
       /\ stats.totalHeadshots = 0 /\ stats.totalBodyshots = 0
       /\ stats.totalLegshots = 0
       /\ stats.kd = Num(0)
       /\ stats.winRate = Num(0)
       /\ stats.headshotPercentage = Num(0)
       /\ stats.averageKills = Num(0)
       /\ stats.averageDeaths = Num(0)
       /\ stats.averageAssists = Num(0)
       /\ stats.averageScore = Num(0)
       /\ DOMAIN stats.agents = {}
       /\ DOMAIN stats.maps = {}
       /\ stats.recentMatches = <<>>

\* calculatePlayerStats has returned for the empty sequence
C10_Witness ==
    pc = "done" /\ matches = <<>> /\ stats.totalMatches = 0

\* the sum of one field over the entries of a breakdown
RECURSIVE SumOver(_, _, _)
SumOver(entries, keys, field) ==
    IF keys = {} THEN 0
    ELSE LET k == CHOOSE x \in keys : TRUE
         IN  entries[k][field] + SumOver(entries, keys \ {k}, field)

SumField(entries, field) == SumOver(entries, DOMAIN entries, field)

\* C12: the breakdowns agree with the totals: in the snapshot
\* calculatePlayerStats returns, the matches of all agent entries and the
\* matches of all map entries both sum to the length of recentMatches, the
\* wins of all agent entries and of all map entries both sum to wins, and
\* the kills and deaths of all agent entries sum to totalKills and
\* totalDeaths.
C12_BreakdownsAgreeWithTotals ==
    pc = "done"
    => /\ SumField(stats.agents, "matches") = Len(stats.recentMatches)
       /\ SumField(stats.maps, "matches") = Len(stats.recentMatches)
       /\ SumField(stats.agents, "wins") = stats.wins
       /\ SumField(stats.maps, "wins") = stats.wins
       /\ SumField(stats.agents, "kills") = stats.totalKills
       /\ SumField(stats.agents, "deaths") = stats.totalDeaths

\* calculatePlayerStats has returned for two matches played with two
\* agents on two maps, one of them won although the rounds were level
C12_Witness ==
    /\ pc = "done"
    /\ Len(stats.recentMatches) = 2
    /\ DOMAIN stats.agents = {"Jett", "Sage"}
    /\ DOMAIN stats.maps = {"Ascent", "Bind"}
    /\ stats.wins = 1
    /\ \E i \in 1..Len(matches) :
          SubjectTeamWon(matches[i]) /\ BothRoundsEqual(matches[i])

(***************************************************************************)
(* Properties of the routes (Spec).                                        *)
(***************************************************************************)
\* the calls of getMatchDetails among the calls of a handler, from the k-th
DetailCalls(log, k) == SubSeq(log, k, Len(log))

\* the values of the calls that resolved, in order
ResolvedValues(calls) ==
    LET F[k \in 0..Len(calls)] ==
            IF k = 0 THEN <<>>
            ELSE IF calls[k].ok THEN Append(F[k - 1], calls[k].value)
            ELSE F[k - 1]
    IN  F[Len(calls)]

\* the match-list call resolved with a list of matches
ListResolved(call) == call.ok /\ ~call.value.empty

\* C2: in getRecentMatchesWithDetails a failed detail fetch does not abort
\* the others: once the match list is there, the call returns, and returns
\* exactly the records of the detail fetches that resolved.
C2_FailedDetailFetchIsDropped ==
    (resp.op = "matches" /\ Len(resp.log) >= 1 /\ ListResolved(resp.log[1]))
    => IF resp.computed
       THEN resp.result.matches = ResolvedValues(DetailCalls(resp.log, 2))
       ELSE FALSE

\* the match-history fetch of getPlayerProfile threw or gave no matches
HistoryUnavailable(call) ==
    \/ ~call.ok
    \/ call.value.empty
    \/ Len(call.value.data.history) = 0

\* C3: in getPlayerProfile, when the account is resolved and the
\* match-history fetch throws or returns an empty history, the call returns
\* a profile with statistics.totalMatches = 0, no agent and map entries and
\* rank null.
C3_ProfileWithoutHistoryIsAllZero ==
    (resp.op = "player" /\ Len(resp.log) >= 2 /\ resp.log[1].ok
        /\ HistoryUnavailable(resp.log[2]))
    => /\ resp.computed
       /\ resp.result.statistics.totalMatches = 0
       /\ DOMAIN resp.result.statistics.agents = {}
       /\ DOMAIN resp.result.statistics.maps = {}
       /\ resp.result.rank = Null

\* a profile request resolved the account, its match-history fetch threw,
\* and getPlayerProfile returned
C3_Witness ==
    /\ resp.op = "player"
    /\ Len(resp.log) = 2
    /\ resp.log[1].ok
    /\ ~resp.log[2].ok
    /\ resp.computed
    /\ resp.result.statistics.totalMatches = 0

\* a detail fetch rejected, or resolved with a match record
FailedOrMatch(call) == ~call.ok \/ ~call.value.empty

\* the ids of the matches in which the subject is found, in order
IdsWithSubject(bodies) ==
    LET F[k \in 0..Len(bodies)] ==
            IF k = 0 THEN <<>>
            ELSE IF FindPlayer(bodies[k].data, Subject) # 0
                 THEN Append(F[k - 1], bodies[k].data.metadata.matchid)
            ELSE F[k - 1]
    IN  F[Len(bodies)]

\* the kills of the subject in the matches in which the subject is found
KillsOfSubject(bodies) ==
    LET F[k \in 0..Len(bodies)] ==
            IF k = 0 THEN 0
            ELSE LET i == FindPlayer(bodies[k].data, Subject)
                 IN  IF i # 0
                     THEN F[k - 1] + bodies[k].data.players.all_players[i].stats.kills
                     ELSE F[k - 1]
    IN  F[Len(bodies)]

\* the ids of the recent-match summaries of a statistics snapshot
RecentIds(statistics) ==
    [i \in 1..Len(statistics.recentMatches) |->
        statistics.recentMatches[i].matchId]

C8_LimitIsHonoured ==
    (resp.op = "matches" /\ Len(resp.log) >= 1)
    => /\ ListResolved(resp.log[1])
            => Len(resp.log[1].value.data.history) <= resp.count
       /\ resp.computed => Len(resp.result.matches) <= resp.count

\* C9: when the write to the document store fails after the stats or the
\* profile have been computed, the request still returns the computed
\* result.
C9_PersistenceFailureStillReturnsResult ==
    (resp.op \in {"stats", "player"} /\ resp.computed /\ ~resp.dbOk)
    => /\ resp.success
       /\ resp.data = resp.result

(***************************************************************************)
(* Properties of the cache-fronted requests (SpecCache).                   *)
(***************************************************************************)
\* C4: once a request with a cache key has resolved, a later request of
\* the same operation with the same parameters, made before the entry
\* expires, returns the stored response without a network call, whatever
\* the stored response is.
C4_RepeatedRequestIsServedFromCache ==
    \A i \in 1..Len(resp.log) :
        resp.log[i].prior
        => /\ ~resp.log[i].net
           /\ resp.log[i].ok
           /\ resp.log[i].stored

\* C5: no request is answered with a response that was fetched for other
\* parameters: the value a call resolves with was fetched from the URL of
\* that call (which names the operation, the region and the queue).
C5_ResponsesAreNotSharedAcrossParameters ==
    \A i \in 1..Len(resp.log) :
        resp.log[i].ok => resp.log[i].value.src = resp.log[i].url

====
